---- MODULE Spec2Model ----
(***************************************************************************)
(* Model of github.com/mulan-ext/log.                                      *)
(*                                                                         *)
(* Part 1: the asynchronous HTTP batch writer (src/writer-http.go): the    *)
(* callers of Write and Close, the background worker, the ticker and the   *)
(* collector, as one state machine (Spec, FairSpec).                       *)
(* Part 2: the logger facade (NewWithConfig and createAdaptorCore), as a   *)
(* second state machine over the same variables (SpecFacade).              *)
(***************************************************************************)
EXTENDS Integers, Sequences, FiniteSets, TLC

\* ------------------------------------------------------------------ bounds
MaxWrites == 3      \* Write calls in one behaviour
MaxBuffer == 2      \* largest buffer-size option explored
MaxBatch == 2       \* largest batch-size option explored
MaxRetries == 1     \* largest max-retries option explored
MaxAdaptors == 3    \* longest Config.Adaptors list explored
MaxSinks == 2       \* longest Config.Adaptors list a Service is started with
MaxCloses == 2      \* calls of Logger.Close in one behaviour

\* ------------------------------------------------------------------ state
VARIABLES
    bufferSize,     \* cap(w.buffer), from opts.BufferSize
    batchSize,      \* w.batchSize
    maxRetries,     \* w.maxRetries
    buffer,         \* contents of the channel w.buffer, head first
    closed,         \* close(w.buffer) has happened
    cancelled,      \* w.cancel() has happened: w.ctx.Done() is readable
    panicked,       \* an unrecovered panic has ended the process
    closePc,        \* position of the caller of Close
    wpc,            \* position of the worker goroutine
    data,           \* the worker's received record (case data, ok := <-w.buffer)
    batch,          \* the worker's local batch
    payload,        \* buf.Bytes() of the running sendBatch
    attempt,        \* loop index i of the running sendBatch
    after,          \* which call site sendBatch returns to: "loop" or "exit"
    reached,        \* the in-flight POST left the client (ctx was live at its start)
    tickPending,    \* ticker.C holds a tick (capacity 1)
    nWrites,        \* history: number of Write calls so far
    lastWrite,      \* history: arguments and results of the latest Write
    okBefore,       \* history: ids Write accepted before Close was called
    okAfter,        \* history: ids Write accepted after Close signalled cancellation
    flushed,        \* history: the record ids of the payload of each sendBatch call, in order
    received,       \* history: ids in a POST that reached the collector
    envFailed,      \* history: the collector or the network failed some POST
    attempts,       \* history: outcomes of the POSTs of the latest sendBatch
    delays,         \* history: seconds slept after each failed POST of the latest sendBatch
    sendErr,        \* history: result of the latest sendBatch ("none" while running)
    flushesAtCancel, \* history: number of sendBatch calls started before Close signalled cancellation
    cfg,            \* facade: the *Config passed to NewWithConfig
    env,            \* facade: which createAdaptorCore is built in, and the file system
    fpc,            \* facade: position of the caller of NewWithConfig
    result,         \* facade: what NewWithConfig returned
    call,           \* a direct call of a parser or of createAdaptorCore: function, argument
    ret,            \* what that call returned
    service,        \* the Service: its logger field, and whether the process has panicked
    sinks,          \* l.closers of the Logger, with the number of Close calls each got
    closeLog        \* history: one entry per call of Logger.Close

optVars == <<bufferSize, batchSize, maxRetries>>
chanVars == <<buffer, closed, cancelled>>
workerVars == <<wpc, data, batch, payload, attempt, after, reached>>
sendHist == <<flushed, received, envFailed, attempts, delays, sendErr>>
writeHist == <<nWrites, lastWrite, okBefore, okAfter>>
serviceVars == <<service, sinks, closeLog>>
facadeVars == <<cfg, env, fpc, result, call, ret, serviceVars>>
closeVars == <<closePc, flushesAtCancel>>
httpVars == <<optVars, chanVars, panicked, closeVars, workerVars, tickPending,
              writeHist, sendHist>>
vars == <<httpVars, facadeVars>>

\* ------------------------------------------------------------------ data
\* An encoded record as zap hands it to Write: bytes, the encoder ends each
\* entry with a line break.
Payloads == { <<"a", "\n">> }

Space == { " ", "\n", "\t", "\r" }

NoRecord == [id |-> 0, data |-> <<>>]

RECURSIVE TrimLeft(_)
TrimLeft(s) == IF s # <<>> /\ Head(s) \in Space THEN TrimLeft(Tail(s)) ELSE s

RECURSIVE TrimRight(_)
TrimRight(s) ==
    IF s # <<>> /\ s[Len(s)] \in Space THEN TrimRight(SubSeq(s, 1, Len(s) - 1)) ELSE s

\* bytes.TrimSpace
TrimSpace(s) == TrimRight(TrimLeft(s))

Punct(c) == [tok |-> c, id |-> 0, data |-> <<>>]

Item(r) == [tok |-> "rec", id |-> r.id, data |-> TrimSpace(r.data)]

\* Faulty variant of EncodeFrom: the records are written in reverse order.
RECURSIVE EncodeReversed(_, _)
EncodeReversed(b, i) ==
    IF i > Len(b) THEN <<>>
    ELSE EncodeReversed(b, i + 1) \o (IF i < Len(b) THEN <<Punct(",")>> ELSE <<>>)
         \o <<Item(b[i])>>

\* The payload loop of sendBatch: '[', the trimmed records in batch order with
\* ',' between them, ']'.
RECURSIVE EncodeFrom(_, _)
EncodeFrom(b, i) ==
    IF i > Len(b) THEN <<>>
    ELSE (IF i > 1 THEN <<Punct(",")>> ELSE <<>>) \o <<Item(b[i])>> \o EncodeFrom(b, i + 1)

EncodeBatch(b) == <<Punct("[")>> \o EncodeFrom(b, 1) \o <<Punct("]")>>

RECURSIVE Ids(_)
Ids(s) == IF s = <<>> THEN <<>> ELSE <<Head(s).id>> \o Ids(Tail(s))

\* The record ids of a payload, in array order.
PayloadIds(p) == Ids(SelectSeq(p, LAMBDA x : x.tok = "rec"))

Range(s) == { s[i] : i \in DOMAIN s }

\* ------------------------------------------------------------------ HTTP sink
\* newHTTPWriter: make(chan []byte, opts.BufferSize) panics on a negative
\* capacity; otherwise the writer exists and its worker goroutine is scheduled.
NewHTTPWriterPanics(size) == size < 0

InitHTTP ==
    /\ bufferSize \in -1 .. MaxBuffer
    /\ batchSize \in -1 .. MaxBatch
    /\ maxRetries \in -1 .. MaxRetries
    /\ buffer = <<>>
    /\ closed = FALSE
    /\ cancelled = FALSE
    /\ panicked = NewHTTPWriterPanics(bufferSize)
    /\ closePc = "idle"
    /\ flushesAtCancel = 0
    /\ wpc = "start"
    /\ data = NoRecord
    /\ batch = <<>>
    /\ payload = <<>>
    /\ attempt = 0
    /\ after = "loop"
    /\ reached = FALSE
    /\ tickPending = FALSE
    /\ nWrites = 0
    /\ lastWrite = [p |-> <<>>, n |-> 0, err |-> "none", id |-> 0, qlen |-> 0,
                    handoff |-> FALSE, phase |-> "idle", busy |-> FALSE]
    /\ okBefore = {}
    /\ okAfter = {}
    /\ flushed = <<>>
    /\ received = {}
    /\ envFailed = FALSE
    /\ attempts = <<>>
    /\ delays = <<>>
    /\ sendErr = "none"

NoResult ==
    [err |-> "none", cores |-> <<>>, closers |-> <<>>, closedEarly |-> <<>>,
     processed |-> 0, globals |-> FALSE]

\* No Service is made.
NoService ==
    /\ service = [logger |-> "unset", panicked |-> FALSE]
    /\ sinks = <<>>
    /\ closeLog = <<>>

\* No direct call is made.
NoCall ==
    /\ call = [fn |-> "none"]
    /\ ret = [done |-> FALSE]

NoFacade ==
    /\ cfg = [isNil |-> TRUE, Level |-> <<>>, Adaptors |-> <<>>]
    /\ env = [variant |-> "cut", badDirs |-> {}]
    /\ fpc = "none"
    /\ result = NoResult
    /\ NoCall
    /\ NoService

Init == InitHTTP /\ NoFacade

\* ---- Write ----------------------------------------------------------------
\* data := make([]byte, len(p)); copy(data, p)
CopyOf(p) == p

\* Faulty variant of CanEnqueue: an off-by-one capacity test.
CanEnqueueOffByOne == Len(buffer) <= bufferSize

\* Faulty variant of CanEnqueue: a channel without a capacity limit.
CanEnqueueUnbounded == TRUE

\* case w.buffer <- data: the send can proceed into a free slot of the channel.
CanEnqueue == Len(buffer) < bufferSize

\* case w.buffer <- data on a channel without a free slot: the send can still
\* proceed when the worker is blocked in its select with no other case ready
\* (the only way a send on an unbuffered channel succeeds).
WorkerParked == wpc = "select" /\ buffer = <<>> /\ ~cancelled /\ ~tickPending

WriteResult(p, e, h) ==
    [p |-> p, n |-> Len(p), err |-> e, id |-> nWrites + 1, qlen |-> Len(buffer),
     handoff |-> h, phase |-> closePc, busy |-> (wpc \in {"inflight", "sleep"})]

Accept(id) ==
    IF closePc = "idle"
    THEN okBefore' = okBefore \cup {id} /\ okAfter' = okAfter
    ELSE okAfter' = okAfter \cup {id} /\ okBefore' = okBefore

\* Faulty variant of Write: a plain blocking send, w.buffer <- data, without the
\* select and its default case.
WriteBlocking(p) ==
    /\ ~panicked
    /\ nWrites' = nWrites + 1
    /\ LET rec == [id |-> nWrites + 1, data |-> CopyOf(p)] IN
       \/ /\ closed
          /\ panicked' = TRUE
          /\ lastWrite' = WriteResult(p, "panic", FALSE)
          /\ UNCHANGED <<buffer, wpc, data, okBefore, okAfter>>
       \/ /\ ~closed /\ CanEnqueue
          /\ buffer' = Append(buffer, rec)
          /\ lastWrite' = WriteResult(p, "nil", FALSE)
          /\ Accept(rec.id)
          /\ UNCHANGED <<panicked, wpc, data>>
       \/ /\ ~closed /\ ~CanEnqueue /\ WorkerParked
          /\ wpc' = "recv"
          /\ data' = rec
          /\ lastWrite' = WriteResult(p, "nil", TRUE)
          /\ Accept(rec.id)
          /\ UNCHANGED <<panicked, buffer>>
    /\ UNCHANGED <<optVars, closed, cancelled, closeVars, batch, payload, attempt,
                   after, reached, tickPending, sendHist, facadeVars>>

Write(p) ==
    /\ ~panicked
    /\ nWrites' = nWrites + 1
    /\ LET rec == [id |-> nWrites + 1, data |-> CopyOf(p)] IN
       \/ /\ closed                      \* send on closed channel
          /\ panicked' = TRUE
          /\ lastWrite' = WriteResult(p, "panic", FALSE)
          /\ UNCHANGED <<buffer, wpc, data, okBefore, okAfter>>
       \/ /\ ~closed /\ CanEnqueue
          /\ buffer' = Append(buffer, rec)
          /\ lastWrite' = WriteResult(p, "nil", FALSE)
          /\ Accept(rec.id)
          /\ UNCHANGED <<panicked, wpc, data>>
       \/ /\ ~closed /\ ~CanEnqueue /\ WorkerParked
          /\ wpc' = "recv"
          /\ data' = rec
          /\ lastWrite' = WriteResult(p, "nil", TRUE)
          /\ Accept(rec.id)
          /\ UNCHANGED <<panicked, buffer>>
       \/ /\ ~closed /\ ~CanEnqueue      \* default:
          /\ lastWrite' = WriteResult(p, "full", FALSE)
          /\ UNCHANGED <<panicked, buffer, wpc, data, okBefore, okAfter>>
    /\ UNCHANGED <<optVars, closed, cancelled, closeVars, batch, payload, attempt,
                   after, reached, tickPending, sendHist, facadeVars>>

\* ---- Close ----------------------------------------------------------------
CloseCancel ==
    /\ ~panicked
    /\ closePc = "idle"
    /\ cancelled' = TRUE
    /\ closePc' = "cancelled"
    /\ flushesAtCancel' = Len(flushed)
    /\ UNCHANGED <<optVars, buffer, closed, panicked, workerVars, tickPending,
                   writeHist, sendHist, facadeVars>>

CloseChan ==
    /\ ~panicked
    /\ closePc = "cancelled"
    /\ closed' = TRUE
    /\ closePc' = "waiting"
    /\ UNCHANGED flushesAtCancel
    /\ UNCHANGED <<optVars, buffer, cancelled, panicked, workerVars, tickPending,
                   writeHist, sendHist, facadeVars>>

\* Faulty variant of WaitGroupDone: Close does not wait for the worker.
WaitGroupNotAwaited == TRUE

\* w.wg.Wait() returns once the worker has run its deferred wg.Done().
WaitGroupDone == wpc = "done"

CloseWait ==
    /\ ~panicked
    /\ closePc = "waiting"
    /\ WaitGroupDone
    /\ closePc' = "done"
    /\ UNCHANGED flushesAtCancel
    /\ UNCHANGED <<optVars, chanVars, panicked, workerVars, tickPending,
                   writeHist, sendHist, facadeVars>>

\* ---- worker ---------------------------------------------------------------
\* batch := make([][]byte, 0, w.batchSize) panics on a negative capacity.
MakeBatchPanics(size) == size < 0

WorkerStart ==
    /\ ~panicked
    /\ wpc = "start"
    /\ IF MakeBatchPanics(batchSize)
       THEN panicked' = TRUE /\ wpc' = wpc
       ELSE panicked' = panicked /\ wpc' = "select"
    /\ UNCHANGED <<optVars, chanVars, closeVars, data, batch, payload, attempt, after,
                   reached, tickPending, writeHist, sendHist, facadeVars>>

\* time.NewTicker(1 * time.Second): a tick is kept in ticker.C (capacity 1) until
\* the worker takes it; ticks that find it full are dropped. The deferred
\* ticker.Stop() ends the ticks when the worker returns.
TickInterval == 1

Tick ==
    /\ ~panicked
    /\ wpc \notin {"start", "done"}
    /\ ~tickPending
    /\ tickPending' = TRUE
    /\ UNCHANGED <<optVars, chanVars, panicked, closeVars, workerVars, writeHist,
                   sendHist, facadeVars>>

\* Faulty variant of ReturnFromSend: the loop paths keep a batch whose send failed.
ReturnFromSendKeepFailed(err, b, why) ==
    /\ sendErr' = err
    /\ IF why = "exit"
       THEN wpc' = "done" /\ batch' = b
       ELSE wpc' = "select" /\ batch' = IF err = "nil" THEN <<>> ELSE b

\* sendBatch returns err to the call site `why`: the exit paths return from the
\* worker with the batch as it was, the loop paths do batch = batch[:0].
ReturnFromSend(err, b, why) ==
    /\ sendErr' = err
    /\ IF why = "exit"
       THEN wpc' = "done" /\ batch' = b
       ELSE wpc' = "select" /\ batch' = <<>>

\* The head of the retry loop with index i: for i := 0; i <= w.maxRetries; i++.
\* post derives its context from w.ctx, so a POST started after cancellation
\* fails in the client without leaving it.
\* Faulty variant of RetryAllowed: one attempt too few.
RetryOneShort(i) == i < maxRetries

RetryAllowed(i) == i <= maxRetries

PostContextLive == ~cancelled

LoopHead(i, b, why) ==
    /\ attempt' = i
    /\ IF RetryAllowed(i)
       THEN /\ wpc' = "inflight"
            /\ reached' = PostContextLive
            /\ batch' = b
            /\ sendErr' = "none"
       ELSE /\ reached' = FALSE
            /\ ReturnFromSend("err", b, why)

\* A call sendBatch(b) from the call site `why`, up to its first POST.
SendBatch(b, why) ==
    IF Len(b) = 0
    THEN /\ ReturnFromSend("nil", b, why)
         /\ UNCHANGED <<payload, attempt, after, reached, flushed, attempts, delays>>
    ELSE /\ payload' = EncodeBatch(b)
         /\ flushed' = Append(flushed, PayloadIds(EncodeBatch(b)))
         /\ attempts' = <<>>
         /\ delays' = <<>>
         /\ after' = why
         /\ LoopHead(0, b, why)

\* The exit paths: if len(batch) > 0 { _ = w.sendBatch(batch) }; return
ExitWorker ==
    IF Len(batch) > 0
    THEN SendBatch(batch, "exit")
    ELSE /\ wpc' = "done"
         /\ UNCHANGED <<batch, payload, attempt, after, reached, flushed, attempts,
                        delays, sendErr>>

\* case <-w.ctx.Done():
WorkerCtxDone ==
    /\ ~panicked
    /\ wpc = "select"
    /\ cancelled
    /\ ExitWorker
    /\ UNCHANGED <<optVars, chanVars, panicked, closeVars, data, tickPending,
                   writeHist, received, envFailed, facadeVars>>

\* case data, ok := <-w.buffer: with ok = true
WorkerRecv ==
    /\ ~panicked
    /\ wpc = "select"
    /\ buffer # <<>>
    /\ data' = Head(buffer)
    /\ buffer' = Tail(buffer)
    /\ wpc' = "recv"
    /\ UNCHANGED <<optVars, closed, cancelled, panicked, closeVars, batch, payload,
                   attempt, after, reached, tickPending, writeHist, sendHist,
                   facadeVars>>

\* case data, ok := <-w.buffer: with ok = false (closed and drained)
WorkerRecvClosed ==
    /\ ~panicked
    /\ wpc = "select"
    /\ buffer = <<>>
    /\ closed
    /\ ExitWorker
    /\ UNCHANGED <<optVars, chanVars, panicked, closeVars, data, tickPending,
                   writeHist, received, envFailed, facadeVars>>

\* Faulty variant of BatchFull: the batch is flushed one record late.
BatchFullLate(b) == Len(b) > batchSize

\* if len(batch) >= w.batchSize
BatchFull(b) == Len(b) >= batchSize

\* batch = append(batch, data); if len(batch) >= w.batchSize { sendBatch; batch[:0] }
WorkerAppend ==
    /\ ~panicked
    /\ wpc = "recv"
    /\ LET b == Append(batch, data) IN
       IF BatchFull(b)
       THEN SendBatch(b, "loop")
       ELSE /\ batch' = b
            /\ wpc' = "select"
            /\ UNCHANGED <<payload, attempt, after, reached, flushed, attempts,
                           delays, sendErr>>
    /\ data' = NoRecord
    /\ UNCHANGED <<optVars, chanVars, panicked, closeVars, tickPending, writeHist,
                   received, envFailed, facadeVars>>

\* Faulty variant of TickFlushDue: the tick flushes full batches only.
TickFlushOnlyFull(b) == Len(b) >= batchSize

\* if len(batch) > 0 (in the ticker case)
TickFlushDue(b) == Len(b) > 0

\* case <-ticker.C: if len(batch) > 0 { sendBatch; batch[:0] }
WorkerTick ==
    /\ ~panicked
    /\ wpc = "select"
    /\ tickPending
    /\ tickPending' = FALSE
    /\ IF TickFlushDue(batch)
       THEN SendBatch(batch, "loop")
       ELSE UNCHANGED <<wpc, batch, payload, attempt, after, reached, flushed,
                        attempts, delays, sendErr>>
    /\ UNCHANGED <<optVars, chanVars, panicked, closeVars, data, writeHist,
                   received, envFailed, facadeVars>>

\* What a POST can end with: "ok" (status below 400), "status" (status >= 400),
\* "neterr" (transport error or the per-request timeout), "canceled" (w.ctx is
\* done: at once when it was done at the start, else possibly in flight).
Outcomes ==
    IF ~reached THEN {"canceled"}
    ELSE {"ok", "status", "neterr"} \cup (IF cancelled THEN {"canceled"} ELSE {})

\* Faulty variant of PostSucceeded: the status of the response is not looked at.
PostSucceededAnyStatus(o) == o \in {"ok", "status"}

\* post returns nil exactly for a response with a status below 400.
PostSucceeded(o) == o = "ok"

\* w.post(buf.Bytes()) returns; on an error: lastErr = err, then time.Sleep.
PostReturn(o) ==
    /\ ~panicked
    /\ wpc = "inflight"
    /\ o \in Outcomes
    /\ attempts' = Append(attempts, o)
    /\ received' = IF o \in {"ok", "status"} \/ (o = "canceled" /\ reached)
                   THEN received \cup Range(PayloadIds(payload)) ELSE received
    /\ envFailed' = (envFailed \/ o \in {"status", "neterr"})
    /\ IF PostSucceeded(o)
       THEN ReturnFromSend("nil", batch, after)
       ELSE wpc' = "sleep" /\ UNCHANGED <<batch, sendErr>>
    /\ UNCHANGED <<optVars, chanVars, panicked, closeVars, data, payload, attempt,
                   after, reached, tickPending, writeHist, flushed, delays,
                   facadeVars>>

\* time.Sleep(time.Duration(i+1) * time.Second)
Backoff(i) == i + 1

\* The sleep ends; continue: i++ and the loop head.
SleepDone ==
    /\ ~panicked
    /\ wpc = "sleep"
    /\ delays' = Append(delays, Backoff(attempt))
    /\ LoopHead(attempt + 1, batch, after)
    /\ UNCHANGED <<optVars, chanVars, panicked, closeVars, data, payload, after,
                   tickPending, writeHist, flushed, received, envFailed, attempts,
                   facadeVars>>

Worker ==
    \/ WorkerStart
    \/ WorkerCtxDone
    \/ WorkerRecv
    \/ WorkerRecvClosed
    \/ WorkerAppend
    \/ WorkerTick
    \/ \E o \in {"ok", "status", "neterr", "canceled"} : PostReturn(o)
    \/ SleepDone

Close == CloseCancel \/ CloseChan \/ CloseWait

Next ==
    \/ \E p \in Payloads : nWrites < MaxWrites /\ Write(p)
    \/ CloseCancel
    \/ CloseChan
    \/ CloseWait
    \/ Tick
    \/ WorkerStart
    \/ WorkerCtxDone
    \/ WorkerRecv
    \/ WorkerRecvClosed
    \/ WorkerAppend
    \/ WorkerTick
    \/ \E o \in {"ok", "status", "neterr", "canceled"} : PostReturn(o)
    \/ SleepDone

Spec == Init /\ [][Next]_vars

\* The scheduler runs the worker goroutine, time passes for the ticker, every
\* POST ends (response, error or timeout), and a caller inside Close goes on.
FairSpec ==
    /\ Spec
    /\ WF_vars(Worker)
    /\ WF_vars(Tick)
    /\ WF_vars(CloseChan \/ CloseWait)

\* Moreover the select of the worker picks at random among its ready cases: a
\* case that is ready again and again is taken in the end.
FairSelectSpec == FairSpec /\ SF_vars(WorkerCtxDone)

\* ------------------------------------------------------------------ DSN parsing
\* Strings that are parsed character by character (query values, level names)
\* are sequences of one-character strings.
Digits == {"0", "1", "2", "3", "4", "5", "6", "7", "8", "9"}

DigitValue(c) ==
    CASE c = "0" -> 0 [] c = "1" -> 1 [] c = "2" -> 2 [] c = "3" -> 3 [] c = "4" -> 4
      [] c = "5" -> 5 [] c = "6" -> 6 [] c = "7" -> 7 [] c = "8" -> 8 [] c = "9" -> 9

UpperLetters ==
    <<"A", "B", "C", "D", "E", "F", "G", "H", "I", "J", "K", "L", "M",
      "N", "O", "P", "Q", "R", "S", "T", "U", "V", "W", "X", "Y", "Z">>

LowerLetters ==
    <<"a", "b", "c", "d", "e", "f", "g", "h", "i", "j", "k", "l", "m",
      "n", "o", "p", "q", "r", "s", "t", "u", "v", "w", "x", "y", "z">>

LowerChar(c) ==
    IF \E i \in DOMAIN UpperLetters : UpperLetters[i] = c
    THEN LowerLetters[CHOOSE i \in DOMAIN UpperLetters : UpperLetters[i] = c]
    ELSE c

\* strings.ToLower
ToLower(s) == [i \in DOMAIN s |-> LowerChar(s[i])]

IsDigits(s) == s # <<>> /\ \A i \in DOMAIN s : s[i] \in Digits

RECURSIVE DigitsValue(_)
DigitsValue(s) ==
    IF s = <<>> THEN 0
    ELSE DigitsValue(SubSeq(s, 1, Len(s) - 1)) * 10 + DigitValue(s[Len(s)])

Failed == [ok |-> FALSE, val |-> 0]

Parsed(v) == [ok |-> TRUE, val |-> v]

\* strconv.Atoi: an optional sign and decimal digits. The inputs explored are too
\* short to leave the range of int.
Atoi(s) ==
    IF s # <<>> /\ Head(s) \in {"+", "-"}
    THEN IF IsDigits(Tail(s))
         THEN Parsed(IF Head(s) = "-" THEN 0 - DigitsValue(Tail(s)) ELSE DigitsValue(Tail(s)))
         ELSE Failed
    ELSE IF IsDigits(s) THEN Parsed(DigitsValue(s)) ELSE Failed

RECURSIVE DigitPrefixLen(_)
DigitPrefixLen(s) ==
    IF s # <<>> /\ Head(s) \in Digits THEN 1 + DigitPrefixLen(Tail(s)) ELSE 0

\* reSize = ^(\d+)(m|mb|g|gb)?$
SizeUnits == { <<>>, <<"m">>, <<"m", "b">>, <<"g">>, <<"g", "b">> }

\* reDays = ^(\d+)(d|day|days)?$
DayUnits == { <<>>, <<"d">>, <<"d", "a", "y">>, <<"d", "a", "y", "s">> }

\* FindStringSubmatch of ^(\d+)(unit)?$: the digits are the longest digit prefix
\* (no unit contains a digit) and the rest must be one of the units.
SplitNumberUnit(t, n, units) ==
    IF n >= 1 /\ SubSeq(t, n + 1, Len(t)) \in units
    THEN [ok |-> TRUE, num |-> SubSeq(t, 1, n), unit |-> SubSeq(t, n + 1, Len(t))]
    ELSE [ok |-> FALSE, num |-> <<>>, unit |-> <<>>]

MatchNumberUnit(t, units) == SplitNumberUnit(t, DigitPrefixLen(t), units)

GigaFactor == 1024

\* The switch on the unit of parseSizeString, for the number Atoi made of the
\* digits.
ScaleSize(num, unit) ==
    IF ~num.ok THEN Failed
    ELSE IF unit \in { <<>>, <<"m">>, <<"m", "b">> } THEN Parsed(num.val)
    ELSE IF unit \in { <<"g">>, <<"g", "b">> } THEN Parsed(num.val * GigaFactor)
    ELSE Failed

SizeOfMatch(m) == IF ~m.ok THEN Failed ELSE ScaleSize(Atoi(m.num), m.unit)

\* Faulty variant of parseSizeString: the unit is matched as written, without
\* strings.ToLower.
parseSizeStringCaseSensitive(s) == SizeOfMatch(MatchNumberUnit(TrimSpace(s), SizeUnits))

parseSizeString(s) == SizeOfMatch(MatchNumberUnit(ToLower(TrimSpace(s)), SizeUnits))

DaysOfMatch(m) == IF ~m.ok THEN Failed ELSE Atoi(m.num)

\* Faulty variant of parseDurationString: the unit is matched as written,
\* without strings.ToLower.
parseDurationStringCaseSensitive(s) == DaysOfMatch(MatchNumberUnit(TrimSpace(s), DayUnits))

parseDurationString(s) == DaysOfMatch(MatchNumberUnit(ToLower(TrimSpace(s)), DayUnits))

\* zapcore levels.
DebugLevel == -1
InfoLevel == 0
WarnLevel == 1
ErrorLevel == 2

LevelNames ==
    << [name |-> <<"d", "e", "b", "u", "g">>, lvl |-> DebugLevel],
       [name |-> <<"i", "n", "f", "o">>, lvl |-> InfoLevel],
       [name |-> <<>>, lvl |-> InfoLevel],
       [name |-> <<"w", "a", "r", "n">>, lvl |-> WarnLevel],
       [name |-> <<"e", "r", "r", "o", "r">>, lvl |-> ErrorLevel] >>

\* zapcore.ParseLevel: the level names in lower or upper case, "" is info. (The
\* dpanic, panic and fatal names are not among the inputs explored.)
LevelNamed(t) ==
    IF \E i \in DOMAIN LevelNames : LevelNames[i].name = t
    THEN Parsed(LevelNames[CHOOSE i \in DOMAIN LevelNames : LevelNames[i].name = t].lvl)
    ELSE Failed

ParseLevel(text) == LevelNamed(ToLower(text))

\* time.ParseDuration, in milliseconds, for the inputs explored: decimal digits
\* followed by one of the units ms, s, m, h; anything else explored here is not
\* a duration.
MsPerUnit(u) ==
    CASE u = <<"m", "s">> -> 1
      [] u = <<"s">> -> 1000
      [] u = <<"m">> -> 60000
      [] u = <<"h">> -> 3600000

DurationUnits == { <<"m", "s">>, <<"s">>, <<"m">>, <<"h">> }

DurationOfMatch(m) ==
    IF m.ok /\ m.unit # <<>> THEN Parsed(DigitsValue(m.num) * MsPerUnit(m.unit))
    ELSE Failed

ParseDuration(s) == DurationOfMatch(MatchNumberUnit(s, DurationUnits))

\* A DSN is kept as the parts url.Parse finds in it: sep is what follows the
\* scheme ("://", ":" or "" for a string without a scheme), path is the list of
\* path segments, query the key=value pairs in order, bad marks a string that
\* url.Parse rejects (such as a malformed port).
\* url.Values.Get: the first value of the key, "" when the key is absent.
RECURSIVE QueryGet(_, _)
QueryGet(q, key) ==
    IF q = <<>> THEN <<>>
    ELSE IF Head(q).k = key THEN Head(q).v ELSE QueryGet(Tail(q), key)

\* url.Parse (the schemes explored are lower-case already).
UrlParse(dsn) ==
    IF dsn.bad THEN [ok |-> FALSE, Scheme |-> "", Host |-> "", Path |-> <<>>, Query |-> <<>>]
    ELSE [ok |-> TRUE,
          Scheme |-> IF dsn.sep = "" THEN "" ELSE dsn.scheme,
          Host |-> dsn.host,
          Path |-> dsn.path,
          Query |-> dsn.query]

\* strings.Cut(dsn, "://")
CutScheme(dsn) ==
    IF dsn.sep = "://" THEN [ok |-> TRUE, schema |-> dsn.scheme]
    ELSE [ok |-> FALSE, schema |-> ""]

DefaultMaxSize == 100
DefaultMaxBackups == 10
DefaultMaxAge == 30
DefaultTimeoutMs == 10000
DefaultBufferSize == 1024
DefaultBatchSize == 100
DefaultMaxRetries == 3

NoOptions == [ok |-> FALSE]

ParseCompress(v) ==
    IF v = <<"g", "z", "i", "p">> THEN Parsed("gzip")
    ELSE IF v = <<"n", "o", "n", "e">> THEN Parsed("none")
    ELSE Failed

\* One operator per optional query key, for the value query.Get returned: an
\* absent or empty value keeps the default, a value the parser rejects fails the
\* whole parse.
MaxSizeOption(v) == IF v = <<>> THEN Parsed(DefaultMaxSize) ELSE parseSizeString(v)

MaxBackupsOption(v) == IF v = <<>> THEN Parsed(DefaultMaxBackups) ELSE Atoi(v)

\* Faulty variant of MaxAgeOption: max-age is parsed as a size.
MaxAgeOptionAsSize(v) == IF v = <<>> THEN Parsed(DefaultMaxAge) ELSE parseSizeString(v)

MaxAgeOption(v) == IF v = <<>> THEN Parsed(DefaultMaxAge) ELSE parseDurationString(v)

CompressOption(v) == IF v = <<>> THEN Parsed("none") ELSE ParseCompress(v)

LevelOption(v) == IF v = <<>> THEN Parsed(InfoLevel) ELSE ParseLevel(v)

TimeoutOption(v) == IF v = <<>> THEN Parsed(DefaultTimeoutMs) ELSE ParseDuration(v)

BufferSizeOption(v) == IF v = <<>> THEN Parsed(DefaultBufferSize) ELSE Atoi(v)

BatchSizeOption(v) == IF v = <<>> THEN Parsed(DefaultBatchSize) ELSE Atoi(v)

MaxRetriesOption(v) == IF v = <<>> THEN Parsed(DefaultMaxRetries) ELSE Atoi(v)

\* FileOptions once every query key is read: any rejected value is an error.
FileOptions(path, size, backups, age, compress, level) ==
    IF size.ok /\ backups.ok /\ age.ok /\ compress.ok /\ level.ok
    THEN [ok |-> TRUE, Path |-> path, MaxSize |-> size.val,
          MaxBackups |-> backups.val, MaxAge |-> age.val,
          Compress |-> compress.val, Level |-> level.val]
    ELSE NoOptions

\* Faulty variant of FileOptionsOf: the scheme is not validated.
FileOptionsAnyScheme(u) ==
    IF ~u.ok THEN NoOptions
    ELSE FileOptions(u.Path,
                     MaxSizeOption(QueryGet(u.Query, "max-size")),
                     MaxBackupsOption(QueryGet(u.Query, "max-backups")),
                     MaxAgeOption(QueryGet(u.Query, "max-age")),
                     CompressOption(QueryGet(u.Query, "compress")),
                     LevelOption(QueryGet(u.Query, "level")))

FileOptionsOf(u) ==
    IF ~u.ok \/ u.Scheme # "file" THEN NoOptions
    ELSE FileOptions(u.Path,
                     MaxSizeOption(QueryGet(u.Query, "max-size")),
                     MaxBackupsOption(QueryGet(u.Query, "max-backups")),
                     MaxAgeOption(QueryGet(u.Query, "max-age")),
                     CompressOption(QueryGet(u.Query, "compress")),
                     LevelOption(QueryGet(u.Query, "level")))

parseFileOptions(dsn) == FileOptionsOf(UrlParse(dsn))

\* Faulty variant of BaseURL: the whole DSN, query included, as u.String() gives.
WholeURL(u) == [scheme |-> u.Scheme, host |-> u.Host, path |-> u.Path, query |-> u.Query]

\* baseURL := &url.URL{Scheme, Host, Path}; baseURL.String(): a URL with no query.
BaseURL(u) == [scheme |-> u.Scheme, host |-> u.Host, path |-> u.Path, query |-> <<>>]

\* HTTPOptions once every query key is read: any rejected value is an error.
HTTPOptions(url, timeout, buf, bat, retries, level) ==
    IF timeout.ok /\ buf.ok /\ bat.ok /\ retries.ok /\ level.ok
    THEN [ok |-> TRUE, URL |-> url,
          Timeout |-> timeout.val, BufferSize |-> buf.val,
          BatchSize |-> bat.val, MaxRetries |-> retries.val,
          Level |-> level.val]
    ELSE NoOptions

HTTPOptionsOf(u) ==
    IF ~u.ok \/ u.Scheme \notin {"http", "https"} THEN NoOptions
    ELSE HTTPOptions(BaseURL(u),
                     TimeoutOption(QueryGet(u.Query, "timeout")),
                     BufferSizeOption(QueryGet(u.Query, "buffer-size")),
                     BatchSizeOption(QueryGet(u.Query, "batch-size")),
                     MaxRetriesOption(QueryGet(u.Query, "max-retries")),
                     LevelOption(QueryGet(u.Query, "level")))

parseHTTPOptions(dsn) == HTTPOptionsOf(UrlParse(dsn))

\* ------------------------------------------------------------------ facade
\* filepath.Dir of a path given as its segments.
Dir(path) == SubSeq(path, 1, Len(path) - 1)

\* What createAdaptorCore hands back: kind "none" is a nil core, closer says
\* whether the io.Closer is non-nil, worker whether a goroutine was started.
NoSink ==
    [err |-> "error", panic |-> FALSE, kind |-> "none", level |-> 0, closer |-> FALSE,
     worker |-> FALSE]

PanicSink ==
    [err |-> "panic", panic |-> TRUE, kind |-> "none", level |-> 0, closer |-> FALSE,
     worker |-> FALSE]

\* newFileWriter (writer-file.go): an empty path and a directory that cannot be
\* created are errors; otherwise the writer and its closer.
newFileWriter(opts, badDirs) ==
    IF opts.Path = <<>> THEN [ok |-> FALSE, panic |-> FALSE]
    ELSE IF Dir(opts.Path) \in badDirs THEN [ok |-> FALSE, panic |-> FALSE]
    ELSE [ok |-> TRUE, panic |-> FALSE]

\* newHTTPWriter as the factory sees it: the URL of an accepted DSN is never
\* empty; make(chan []byte, opts.BufferSize) panics on a negative size.
newHTTPWriter(opts) ==
    IF NewHTTPWriterPanics(opts.BufferSize) THEN [ok |-> FALSE, panic |-> TRUE]
    ELSE [ok |-> TRUE, panic |-> FALSE]

\* The "file" case of createAdaptorCore for parsed options.
FileSink(opts, lvl, badDirs, ownLevel) ==
    IF ~opts.ok THEN NoSink
    ELSE IF ~newFileWriter(opts, badDirs).ok THEN NoSink
    ELSE [err |-> "nil", panic |-> FALSE, kind |-> "file",
          level |-> IF ownLevel THEN opts.Level ELSE lvl, closer |-> TRUE,
          worker |-> FALSE]

FileCore(dsn, lvl, badDirs, ownLevel) ==
    FileSink(parseFileOptions(dsn), lvl, badDirs, ownLevel)

\* The "http" case of createAdaptorCore for parsed options.
HTTPSink(opts, lvl, ownLevel) ==
    IF ~opts.ok THEN NoSink
    ELSE IF newHTTPWriter(opts).panic THEN PanicSink
    ELSE IF ~newHTTPWriter(opts).ok THEN NoSink
    ELSE [err |-> "nil", panic |-> FALSE, kind |-> "http",
          level |-> IF ownLevel THEN opts.Level ELSE lvl, closer |-> TRUE,
          worker |-> TRUE]

HTTPCore(dsn, lvl, ownLevel) == HTTPSink(parseHTTPOptions(dsn), lvl, ownLevel)

\* createAdaptorCore of the variant that cuts the scheme off at "://" and gives
\* each adaptor the level of its DSN.
createAdaptorCoreCut(dsn, lvl, badDirs) ==
    LET c == CutScheme(dsn) IN
    IF ~c.ok THEN NoSink
    ELSE IF c.schema = "file" THEN FileCore(dsn, lvl, badDirs, TRUE)
    ELSE IF c.schema = "http" THEN HTTPCore(dsn, lvl, TRUE)
    ELSE NoSink

\* zapcore.NewCore(encoder, writer, lvl): the core's LevelEnabler admits an entry
\* whose level is at least lvl.
Enabled(lvl, severity) == severity >= lvl

\* Faulty variant of createAdaptorCoreURL: the bodies of the two cases are
\* exchanged.
createAdaptorCoreSwapped(dsn, lvl, badDirs) ==
    IF ~UrlParse(dsn).ok THEN NoSink
    ELSE IF UrlParse(dsn).Scheme = "file" THEN HTTPCore(dsn, lvl, FALSE)
    ELSE IF UrlParse(dsn).Scheme \in {"http", "https"} THEN FileCore(dsn, lvl, badDirs, FALSE)
    ELSE NoSink

\* createAdaptorCore of log.go: dispatch on url.Parse's scheme, the facade's level.
createAdaptorCoreURL(dsn, lvl, badDirs) ==
    LET u == UrlParse(dsn) IN
    IF ~u.ok THEN NoSink
    ELSE IF u.Scheme = "file" THEN FileCore(dsn, lvl, badDirs, FALSE)
    ELSE IF u.Scheme \in {"http", "https"} THEN HTTPCore(dsn, lvl, FALSE)
    ELSE NoSink

createAdaptorCore(dsn, lvl, e) ==
    IF e.variant = "cut" THEN createAdaptorCoreCut(dsn, lvl, e.badDirs)
    ELSE createAdaptorCoreURL(dsn, lvl, e.badDirs)

\* One iteration of the loop over cfg.Adaptors, for the DSN at index i: on an
\* error close a non-nil closer and continue; else append the core and the
\* closer. A panic ends NewWithConfig and the process.
StepWith(st, i, r) ==
    IF r.panic THEN [st EXCEPT !.err = "panic"]
    ELSE IF r.err # "nil"
         THEN [st EXCEPT !.processed = i,
                         !.closedEarly = IF r.closer THEN Append(@, i) ELSE @]
         ELSE [st EXCEPT !.processed = i,
                         !.cores = Append(@, [src |-> i, kind |-> r.kind, level |-> r.level]),
                         !.closers = IF r.closer THEN Append(@, i) ELSE @]

AdaptorStep(st, i, dsn, lvl, e) == StepWith(st, i, createAdaptorCore(dsn, lvl, e))

RECURSIVE AdaptorLoop(_, _, _, _, _)
AdaptorLoop(st, i, adaptors, lvl, e) ==
    IF i > Len(adaptors) \/ st.err = "panic" THEN st
    ELSE AdaptorLoop(AdaptorStep(st, i, adaptors[i], lvl, e), i + 1, adaptors, lvl, e)

InfoText == <<"i", "n", "f", "o">>

\* The stdout core, always first.
StdoutOnly(level) ==
    [NoResult EXCEPT !.cores = <<[src |-> 0, kind |-> "stdout", level |-> level]>>]

\* After the loop: the check for an empty core list, then the logger is built
\* and the globals are replaced.
BuildLogger(adaptors, st) ==
    IF st.err = "panic" THEN st
    ELSE IF Len(adaptors) > 0 /\ Len(st.cores) = 0
         THEN [st EXCEPT !.err = "noadaptors", !.cores = <<>>, !.closers = <<>>]
         ELSE [st EXCEPT !.err = "nil", !.globals = TRUE]

WithLevel(adaptors, lvl, e) ==
    IF ~lvl.ok THEN [NoResult EXCEPT !.err = "level"]
    ELSE BuildLogger(adaptors,
                     IF Len(adaptors) > 0
                     THEN AdaptorLoop(StdoutOnly(lvl.val), 1, adaptors, lvl.val, e)
                     ELSE StdoutOnly(lvl.val))

WithConfig(conf, e) ==
    WithLevel(conf.Adaptors,
              IF conf.Level = <<>> THEN Parsed(InfoLevel) ELSE ParseLevel(conf.Level),
              e)

\* NewWithConfig, from the nil check to the returned (*Logger, error).
NewWithConfigResult(c, e) ==
    WithConfig(IF c.isNil THEN [isNil |-> FALSE, Level |-> InfoText, Adaptors |-> <<>>]
               ELSE c,
               e)

\* The DSNs explored.
Q(k, v) == [k |-> k, v |-> v]

FileDSN(path, query) ==
    [scheme |-> "file", sep |-> "://", host |-> "", path |-> path, query |-> query,
     bad |-> FALSE]

HTTPDSN(scheme, query) ==
    [scheme |-> scheme, sep |-> "://", host |-> "localhost:3000", path |-> <<"logs">>,
     query |-> query, bad |-> FALSE]

AppLog == <<"var", "log", "app.log">>

SampleDSNs ==
    { FileDSN(AppLog, <<>>),
      FileDSN(AppLog, <<Q("max-size", <<"5", "0", "m">>),
                        Q("compress", <<"g", "z", "i", "p">>),
                        Q("level", <<"d", "e", "b", "u", "g">>)>>),
      FileDSN(AppLog, <<Q("max-size", <<"1", "0", "0", "k">>)>>),
      [FileDSN(<<>>, <<>>) EXCEPT !.host = "app.log"],
      FileDSN(<<"ro", "app.log">>, <<>>),
      HTTPDSN("http", <<>>),
      HTTPDSN("http", <<Q("batch-size", <<"x">>)>>),
      HTTPDSN("https", <<Q("timeout", <<"5", "s">>)>>),
      HTTPDSN("http", <<Q("buffer-size", <<"-", "1">>)>>),
      [HTTPDSN("ftp", <<>>) EXCEPT !.path = <<"x">>],
      [scheme |-> "", sep |-> "", host |-> "", path |-> <<"app.log">>, query |-> <<>>,
       bad |-> FALSE],
      [HTTPDSN("http", <<>>) EXCEPT !.host = "localhost:port", !.bad = TRUE] }

AdaptorLists == UNION { [1 .. n -> SampleDSNs] : n \in 0 .. MaxAdaptors }

SampleLevels == { InfoText, <<"d", "e", "b", "u", "g">>, <<>>, <<"l", "o", "u", "d">> }

NoHTTP ==
    /\ bufferSize = 0
    /\ batchSize = 0
    /\ maxRetries = 0
    /\ buffer = <<>>
    /\ closed = FALSE
    /\ cancelled = FALSE
    /\ panicked = FALSE
    /\ closePc = "none"
    /\ flushesAtCancel = 0
    /\ wpc = "none"
    /\ data = NoRecord
    /\ batch = <<>>
    /\ payload = <<>>
    /\ attempt = 0
    /\ after = "loop"
    /\ reached = FALSE
    /\ tickPending = FALSE
    /\ nWrites = 0
    /\ lastWrite = [p |-> <<>>, n |-> 0, err |-> "none", id |-> 0, qlen |-> 0,
                    handoff |-> FALSE, phase |-> "idle", busy |-> FALSE]
    /\ okBefore = {}
    /\ okAfter = {}
    /\ flushed = <<>>
    /\ received = {}
    /\ envFailed = FALSE
    /\ attempts = <<>>
    /\ delays = <<>>
    /\ sendErr = "none"

InitFacade ==
    /\ NoHTTP
    /\ \/ cfg = [isNil |-> TRUE, Level |-> <<>>, Adaptors |-> <<>>]
       \/ \E l \in SampleLevels, a \in AdaptorLists :
              cfg = [isNil |-> FALSE, Level |-> l, Adaptors |-> a]
    /\ env \in [variant : {"cut", "url"}, badDirs : { {}, {<<"ro">>} }]
    /\ fpc = "call"
    /\ result = NoResult
    /\ NoCall
    /\ NoService

NewWithConfig ==
    /\ fpc = "call"
    /\ result' = NewWithConfigResult(cfg, env)
    /\ fpc' = IF result'.err = "panic" THEN "panicked" ELSE "returned"
    /\ UNCHANGED <<cfg, env, call, ret, serviceVars, httpVars>>

NextFacade == NewWithConfig

SpecFacade == InitFacade /\ [][NextFacade]_vars

\* ------------------------------------------------------------------ direct calls
\* The parsers and createAdaptorCore called on their own. A size or a days
\* string is put together from leading white space, a number, a text after it
\* and trailing white space; each number sample carries the value it denotes
\* (ok is FALSE for a text that is no digit string).
MaxQueryLen == 2

Pads == { <<>>, <<" ">>, <<"\t", " ">> }

NumberSamples ==
    { [s |-> <<"7">>, ok |-> TRUE, n |-> 7],
      [s |-> <<"1", "0">>, ok |-> TRUE, n |-> 10],
      [s |-> <<"0", "3", "0">>, ok |-> TRUE, n |-> 30],
      [s |-> <<"1", "0", "0">>, ok |-> TRUE, n |-> 100],
      [s |-> <<>>, ok |-> FALSE, n |-> 0],
      [s |-> <<"-", "5">>, ok |-> FALSE, n |-> 0],
      [s |-> <<"x">>, ok |-> FALSE, n |-> 0] }

MegaTexts ==
    { <<>>, <<"m">>, <<"M">>, <<"m", "b">>, <<"M", "B">>, <<"M", "b">>, <<"m", "B">> }

GigaTexts ==
    { <<"g">>, <<"G">>, <<"g", "b">>, <<"G", "B">>, <<"G", "b">>, <<"g", "B">> }

DayTexts ==
    { <<>>, <<"d">>, <<"D">>, <<"d", "a", "y">>, <<"D", "A", "Y">>, <<"D", "a", "y">>,
      <<"d", "a", "y", "s">>, <<"D", "A", "Y", "S">>, <<"D", "a", "y", "s">> }

OtherTexts ==
    { <<"k">>, <<"k", "b">>, <<"h">>, <<"t", "b">>, <<"m", "b", "s">>, <<"a", "b", "c">>,
      <<" ", "m">>, <<" ", "d">>, <<"m", "1">>, <<"d", "1">>, <<".", "5">>,
      <<"d", "a">>, <<"w">> }

SampleTexts == MegaTexts \cup GigaTexts \cup DayTexts \cup OtherTexts

TextCalls(fn) ==
    { [fn |-> fn, arg |-> lead \o num.s \o text \o trail, num |-> num, text |-> text] :
          lead \in Pads, num \in NumberSamples, text \in SampleTexts, trail \in Pads }

\* The key=value pairs the DSNs are given, valid and invalid, for the keys of
\* both parsers and for a key neither knows.
SamplePairs ==
    { Q("max-size", <<"5", "0", "m">>), Q("max-size", <<"2", "g">>),
      Q("max-size", <<"1", "0", "0", "k">>), Q("max-size", <<>>),
      Q("max-backups", <<"5">>), Q("max-backups", <<"x">>),
      Q("max-age", <<"7", "d">>), Q("max-age", <<"7", "h">>),
      Q("compress", <<"g", "z", "i", "p">>), Q("compress", <<"n", "o", "n", "e">>),
      Q("compress", <<"z", "i", "p">>), Q("compress", <<>>),
      Q("level", <<"d", "e", "b", "u", "g">>), Q("level", <<"W", "A", "R", "N">>),
      Q("level", <<"l", "o", "u", "d">>),
      Q("timeout", <<"5", "s">>), Q("timeout", <<"5">>),
      Q("buffer-size", <<"5", "1", "2">>), Q("buffer-size", <<"-", "1">>),
      Q("buffer-size", <<"0">>), Q("buffer-size", <<"x">>),
      Q("batch-size", <<"5", "0">>), Q("batch-size", <<"x">>),
      Q("max-retries", <<"5">>), Q("max-retries", <<"-", "1">>),
      Q("foo", <<"b", "a", "r">>) }

\* The query strings: up to MaxQueryLen pairs, no key twice.
SampleQueries ==
    { q \in UNION { [1 .. n -> SamplePairs] : n \in 0 .. MaxQueryLen } :
          \A i, j \in DOMAIN q : i # j => q[i].k # q[j].k }

Schemes == { "file", "http", "https", "ftp", "" }

\* scheme://authority/path?query for a scheme, or a bare path for none.
MakeDSN(scheme, query) ==
    IF scheme = "file" THEN FileDSN(AppLog, query)
    ELSE IF scheme = ""
         THEN [scheme |-> "", sep |-> "", host |-> "", path |-> <<"app.log">>,
               query |-> query, bad |-> FALSE]
         ELSE HTTPDSN(scheme, query)

QueryDSNs == { MakeDSN(scheme, query) : scheme \in Schemes, query \in SampleQueries }

ShortDSNs ==
    { MakeDSN(scheme, query) :
          scheme \in Schemes, query \in { q \in SampleQueries : Len(q) <= 1 } }

DSNCalls(fn) == { [fn |-> fn, arg |-> dsn] : dsn \in QueryDSNs \cup SampleDSNs }

CoreLevels == { DebugLevel, InfoLevel, ErrorLevel }

CoreCalls ==
    { [fn |-> "createAdaptorCore", arg |-> dsn, lvl |-> lvl] :
          dsn \in ShortDSNs \cup SampleDSNs, lvl \in CoreLevels }

InitDSN ==
    /\ NoHTTP
    /\ cfg = [isNil |-> TRUE, Level |-> <<>>, Adaptors |-> <<>>]
    /\ fpc = "none"
    /\ result = NoResult
    /\ ret = [done |-> FALSE]
    /\ NoService
    /\ \/ /\ env = [variant |-> "cut", badDirs |-> {}]
          /\ call \in TextCalls("parseSizeString") \cup TextCalls("parseDurationString")
                     \cup DSNCalls("parseFileOptions") \cup DSNCalls("parseHTTPOptions")
       \/ /\ env \in [variant : {"cut", "url"}, badDirs : { {}, {<<"ro">>} }]
          /\ call \in CoreCalls

Return(v) ==
    /\ ret' = [done |-> TRUE, val |-> v]
    /\ UNCHANGED <<cfg, env, fpc, result, call, serviceVars, httpVars>>

CallParseSizeString ==
    /\ call.fn = "parseSizeString"
    /\ ~ret.done
    /\ Return(parseSizeString(call.arg))

CallParseDurationString ==
    /\ call.fn = "parseDurationString"
    /\ ~ret.done
    /\ Return(parseDurationString(call.arg))

CallParseFileOptions ==
    /\ call.fn = "parseFileOptions"
    /\ ~ret.done
    /\ Return(parseFileOptions(call.arg))

CallParseHTTPOptions ==
    /\ call.fn = "parseHTTPOptions"
    /\ ~ret.done
    /\ Return(parseHTTPOptions(call.arg))

CallCreateAdaptorCore ==
    /\ call.fn = "createAdaptorCore"
    /\ ~ret.done
    /\ Return(createAdaptorCore(call.arg, call.lvl, env))

NextDSN ==
    \/ CallParseSizeString
    \/ CallParseDurationString
    \/ CallParseFileOptions
    \/ CallParseHTTPOptions
    \/ CallCreateAdaptorCore

SpecDSN == InitDSN /\ [][NextDSN]_vars

\* ------------------------------------------------------------------ service
\* The Service wrapper and Logger.Close. A call of Logger.Close is one step: the
\* calls explored are made one after another.
ServiceDSNs ==
    { FileDSN(AppLog, <<>>),
      HTTPDSN("http", <<>>),
      [HTTPDSN("ftp", <<>>) EXCEPT !.path = <<"x">>],
      HTTPDSN("http", <<Q("buffer-size", <<"-", "1">>)>>) }

ServiceConfigs ==
    { [isNil |-> FALSE, Level |-> l, Adaptors |-> a] :
          l \in { InfoText, <<"l", "o", "u", "d">> },
          a \in UNION { [1 .. n -> ServiceDSNs] : n \in 0 .. MaxSinks } }

InitService ==
    /\ NoHTTP
    /\ NoCall
    /\ NoService
    /\ cfg \in ServiceConfigs
    /\ env \in [variant : {"cut", "url"}, badDirs : { {} }]
    /\ fpc = "call"
    /\ result = NoResult

\* The kind of the sink behind the closer registered from the DSN at index src.
KindOf(cores, src) == cores[CHOOSE k \in DOMAIN cores : cores[k].src = src].kind

\* l.closers of the Logger that NewWithConfig returned.
Registered(r) ==
    [i \in DOMAIN r.closers |->
        [src |-> r.closers[i], kind |-> KindOf(r.cores, r.closers[i]), closes |-> 0]]

\* s.logger, err = NewWithConfig(s.cfg)
Serve ==
    /\ fpc = "call"
    /\ ~service.panicked
    /\ result' = NewWithConfigResult(cfg, env)
    /\ fpc' = IF result'.err = "panic" THEN "panicked" ELSE "returned"
    /\ service' = [logger |-> IF result'.err = "nil" THEN "set"
                              ELSE IF result'.err = "panic" THEN "unset" ELSE "nil",
                   panicked |-> result'.err = "panic"]
    /\ sinks' = IF result'.err = "nil" THEN Registered(result') ELSE <<>>
    /\ UNCHANGED <<cfg, env, call, ret, closeLog, httpVars>>

\* closer.Close() of a sink that was closed n times before: the second
\* HTTPWriter.Close runs close(w.buffer) on a closed channel and panics; a file
\* closer returns what lumberjack returns, an error when the file system fails.
SinkClosePanics(kind, n) == kind = "http" /\ n >= 1

\* One iteration of `for _, closer := range l.closers`, for the closer at i.
CloseOne(st, i, fails) ==
    IF st.panic THEN st
    ELSE IF SinkClosePanics(st.sinks[i].kind, st.sinks[i].closes)
    THEN [st EXCEPT !.sinks[i].closes = @ + 1, !.invoked = Append(@, i), !.panic = TRUE]
    ELSE [st EXCEPT !.sinks[i].closes = @ + 1,
                    !.invoked = Append(@, i),
                    !.failed = IF i \in fails THEN Append(@, i) ELSE @,
                    !.firstErr = IF i \in fails /\ @ = 0 THEN i ELSE @]

RECURSIVE CloseFrom(_, _, _)
CloseFrom(st, i, fails) ==
    IF i > Len(st.sinks) THEN st
    ELSE CloseFrom(CloseOne(st, i, fails), i + 1, fails)

\* The indices of the file closers.
FileSinks == { i \in DOMAIN sinks : sinks[i].kind = "file" }

\* The state after Logger.Close ran, given what it left behind.
Closed(op, st) ==
    /\ sinks' = st.sinks
    /\ closeLog' = Append(closeLog, [op |-> op, invoked |-> st.invoked, failed |-> st.failed,
                                      err |-> st.firstErr, panic |-> st.panic])
    /\ service' = [service EXCEPT !.panicked = st.panic]

\* Logger.Close called through op: on a nil *Logger reading l.closers panics.
LoggerCloseVia(op) ==
    /\ ~service.panicked
    /\ Len(closeLog) < MaxCloses
    /\ IF service.logger = "nil"
       THEN Closed(op, [sinks |-> sinks, invoked |-> <<>>, failed |-> <<>>, firstErr |-> 0,
                        panic |-> TRUE])
       ELSE \E fails \in SUBSET FileSinks :
                Closed(op, CloseFrom([sinks |-> sinks, invoked |-> <<>>, failed |-> <<>>,
                                      firstErr |-> 0, panic |-> FALSE], 1, fails))
    /\ UNCHANGED <<cfg, env, fpc, result, call, ret, httpVars>>

\* func (s *Service) Shutdown(ctx) error { return s.logger.Close() }
Shutdown == service.logger # "unset" /\ LoggerCloseVia("Shutdown")

\* func (s *Service) Close() error { return s.logger.Close() }
ServiceClose == service.logger # "unset" /\ LoggerCloseVia("Close")

\* Logger.Close called by the holder of the logger.
LoggerClose == service.logger = "set" /\ LoggerCloseVia("Logger.Close")

NextService ==
    \/ Serve
    \/ Shutdown
    \/ ServiceClose
    \/ LoggerClose

SpecService == InitService /\ [][NextService]_vars

\* ================================================================== claims
Last(s) == s[Len(s)]

RECURSIVE Flatten(_)
Flatten(ss) == IF ss = <<>> THEN <<>> ELSE Head(ss) \o Flatten(Tail(ss))

SaneOptions == bufferSize >= 1 /\ batchSize >= 1 /\ maxRetries >= 0

\* C1: before Close is called, in every state of the sink (worker waiting, in a
\* flush, in a retry sleep; queue empty or full) a Write call can take its one
\* step at once, without any step of the worker.
C1_WriteNeverBlocks ==
    (closePc = "idle" /\ ~panicked) => \A p \in Payloads : ENABLED Write(p)

\* A Write returned while the worker was inside a flush (POST in flight or retry
\* sleep) and the queue was full.
C1_Witness ==
    /\ lastWrite.phase = "idle"
    /\ lastWrite.busy
    /\ lastWrite.err = "full"
    /\ lastWrite.qlen = bufferSize
    /\ bufferSize >= 1

\* C2 as stated: every Write on an open sink returns len(p); the error is nil
\* exactly when the queue held fewer than bufferCapacity records, and then a copy
\* of p is appended at the tail; otherwise the error is BufferFull and the queue
\* is unchanged.
C2_WriteResultAsStated ==
    [][(nWrites' # nWrites /\ ~closed) =>
         LET r == lastWrite' IN
         /\ r.n = Len(r.p)
         /\ (r.err = "nil") <=> (Len(buffer) < bufferSize)
         /\ (r.err = "nil") => (buffer' = Append(buffer, [id |-> r.id, data |-> r.p]))
         /\ (r.err # "nil") => (r.err = "full" /\ buffer' = buffer)]_vars

\* C2 amended: as stated for bufferCapacity >= 1. For bufferCapacity = 0 the queue
\* never holds a record: the error is nil only when the worker is blocked in its
\* select, and the copy of p is then handed to the worker directly; otherwise the
\* error is BufferFull and the record is dropped.
C2_WriteResult ==
    [][(nWrites' # nWrites /\ ~closed) =>
         LET r == lastWrite'
             rec == [id |-> r.id, data |-> r.p]
         IN
         /\ r.n = Len(r.p)
         /\ r.err \in {"nil", "full"}
         /\ (bufferSize >= 1) =>
                /\ (r.err = "nil") <=> (Len(buffer) < bufferSize)
                /\ (r.err = "nil") => (buffer' = Append(buffer, rec))
         /\ (bufferSize = 0 /\ r.err = "nil") =>
                /\ WorkerParked
                /\ buffer' = buffer
                /\ wpc' = "recv"
                /\ data' = rec
         /\ (r.err = "full") =>
                /\ buffer' = buffer
                /\ UNCHANGED workerVars
                /\ r.id \notin okBefore' \cup okAfter']_vars

\* The third Write found a queue of capacity 2 full and was refused.
C2_Witness ==
    /\ lastWrite.err = "full"
    /\ lastWrite.qlen = 2
    /\ bufferSize = 2
    /\ Len(buffer) = 2
    /\ okBefore = {1, 2}

\* C3: when Close has returned and no POST was failed by the collector or the
\* network, every record that Write accepted before Close was called has reached
\* the collector in some POST.
C3_CloseDeliversAll ==
    (closePc = "done" /\ ~envFailed /\ SaneOptions) => okBefore \subseteq received

\* C4: Close returns only when the worker has terminated; the worker terminates
\* with a non-empty batch only after sendBatch ran on exactly that batch and
\* returned; after Close has returned the worker takes no step.
C4_CloseAfterWorker ==
    [][/\ (closePc' = "done") => (wpc' = "done")
       /\ (wpc' = "done" /\ batch' # <<>>) =>
              /\ flushed' # <<>>
              /\ flushed'[Len(flushed')] = Ids(batch')
              /\ sendErr' # "none"
              /\ after' = "exit"
       /\ (closePc = "done") => UNCHANGED <<workerVars, buffer, sendHist>>]_vars

\* Close has returned after the worker flushed a partial batch on its way out.
C4_Witness ==
    /\ closePc = "done"
    /\ batch # <<>>
    /\ Len(batch) < batchSize
    /\ Last(flushed) = Ids(batch)

\* C5: the records of all payloads, taken flush by flush and within a payload by
\* array index, are in the order in which Write enqueued them (ids count the
\* Write calls); the payload of the running flush is the latest of them.
C5_FifoOrder ==
    /\ LET all == Flatten(flushed) IN
       \A i, j \in DOMAIN all : (i < j) => (all[i] < all[j])
    /\ (wpc \in {"inflight", "sleep"}) =>
           (flushed # <<>> /\ PayloadIds(payload) = Last(flushed))

\* Two flushes, the second with two records in its payload.
C5_Witness ==
    /\ Len(flushed) = 2
    /\ Len(flushed[2]) = 2
    /\ wpc = "inflight"

C7_BatchBounded ==
    (batchSize >= 1) =>
        /\ Len(batch) <= batchSize
        /\ (wpc \in {"select", "recv"}) => (Len(batch) < batchSize)
        /\ (Len(batch) = batchSize) =>
               /\ wpc \in {"inflight", "sleep"}
               /\ after = "loop"
               /\ Last(flushed) = Ids(batch)

\* A batch of two records (batch-size = 2) is in its flush, no tick was taken.
C7_Witness ==
    /\ batchSize = 2
    /\ Len(batch) = 2
    /\ wpc = "inflight"
    /\ attempts = <<>>
    /\ Len(flushed) = 1

\* C9: no Write that takes its enqueue step after Close has signalled
\* cancellation adds a record to the queue.
C9_NoEnqueueAfterClose == okAfter = {}

\* C8: a tick taken with a non-empty batch starts the flush of exactly that batch
\* and the batch is cleared when the flush returns; a tick taken with an empty
\* batch changes nothing and posts nothing; when the worker waits with a
\* non-empty batch, an empty queue and a tick in ticker.C, its next step is that
\* flush; and a waiting worker with a non-empty batch eventually is in a flush
\* (the batch only grows until then), has cleared the batch, or has ended.
C8_TickFlush ==
    /\ [][/\ (tickPending /\ ~tickPending') =>
                 IF batch # <<>>
                 THEN /\ flushed' = Append(flushed, Ids(batch))
                      /\ \/ wpc' = "inflight" /\ batch' = batch /\ after' = "loop"
                         \/ wpc' = "select" /\ batch' = <<>>
                 ELSE UNCHANGED <<workerVars, sendHist>>
          /\ (after = "loop" /\ wpc \in {"inflight", "sleep"}
                /\ wpc' \notin {"inflight", "sleep"}) =>
                 (wpc' = "select" /\ batch' = <<>>)
          /\ (wpc = "select" /\ batch # <<>> /\ buffer = <<>> /\ tickPending
                /\ wpc' # wpc) =>
                 (flushed' = Append(flushed, Ids(batch)))]_vars
    /\ (wpc = "select" /\ batch # <<>>)
           ~> (wpc \in {"inflight", "done"} \/ batch = <<>> \/ panicked)

\* A tick started the flush of a batch of one record while batch-size is 2.
C8_Witness ==
    /\ batchSize = 2
    /\ Len(batch) = 1
    /\ wpc = "inflight"
    /\ after = "loop"
    /\ ~tickPending
    /\ ~cancelled
    /\ Last(flushed) = Ids(batch)

\* The level NewWithConfig parsed before its loop was accepted.
LevelAccepted == cfg.isNil \/ cfg.Level = <<>> \/ ParseLevel(cfg.Level).ok

\* The DSNs of the configured list, nil configuration included.
Configured == IF cfg.isNil THEN <<>> ELSE cfg.Adaptors

\* The indices, in list order, of the DSNs whose construction on its own
\* returns a sink.
Succeeding ==
    SelectSeq([i \in 1 .. Len(Configured) |-> i],
              LAMBDA i : createAdaptorCore(Configured[i], InfoLevel, env).err = "nil")

\* The DSNs the facade's cores after the stdout core were built from.
CoreSources == [k \in 1 .. Len(result.cores) - 1 |-> result.cores[k + 1].src]

\* C10: once NewWithConfig has ended for a configuration with a valid level, it
\* has processed every DSN of the list, a failing DSN has left no sink and no
\* closer, and the facade returned holds exactly the sinks and the closers of
\* the succeeding DSNs, in list order.
C10_AdaptorIsolation ==
    (fpc # "call" /\ LevelAccepted) =>
        /\ fpc = "returned"
        /\ result.err = "nil"
        /\ result.processed = Len(Configured)
        /\ CoreSources = Succeeding
        /\ result.closers = Succeeding

\* The same, for the lists in which no DSN makes its constructor panic.
C10_IsolationUnlessPanic ==
    (fpc = "returned" /\ LevelAccepted) =>
        /\ result.err = "nil"
        /\ result.processed = Len(Configured)
        /\ CoreSources = Succeeding
        /\ result.closers = Succeeding

\* A failing DSN between two succeeding ones was skipped.
C10_SkippedInTheMiddle ==
    /\ fpc = "returned"
    /\ Len(Configured) = 3
    /\ result.closers = <<1, 3>>
    /\ result.processed = 3

\* C11: for a non-empty adaptor list of which no DSN yields a sink, NewWithConfig
\* returns the 'no adaptors created' error and no logger.
C11_NoAdaptorsCreated ==
    (fpc = "returned" /\ LevelAccepted /\ Len(Configured) > 0 /\ Succeeding = <<>>) =>
        /\ result.err = "noadaptors"
        /\ result.cores = <<>>
        /\ ~result.globals

\* The DSN is malformed, or one of its query values is rejected by the parser of
\* its scheme.
FailsToParse(dsn) ==
    \/ ~UrlParse(dsn).ok
    \/ UrlParse(dsn).Scheme = "file" /\ ~parseFileOptions(dsn).ok
    \/ UrlParse(dsn).Scheme \in {"http", "https"} /\ ~parseHTTPOptions(dsn).ok

\* C12: when some DSN of the adaptor list fails to parse, the call of
\* NewWithConfig that was given the list returns an error.
C12_ParseErrorsSurface ==
    (fpc = "returned" /\ LevelAccepted
        /\ \E i \in 1 .. Len(Configured) : FailsToParse(Configured[i])) =>
        result.err # "nil"

\* The scheme a DSN is written with ("" for a string without "://").
SchemeOf(dsn) == IF dsn.sep = "://" THEN dsn.scheme ELSE ""

\* createAdaptorCore has returned (or panicked) in a direct call.
CoreReturned == ret.done /\ call.fn = "createAdaptorCore"

\* An error return with a nil core, a nil closer and no goroutine started.
NothingBuilt(r) ==
    r.err = "error" /\ r.kind = "none" /\ ~r.closer /\ ~r.worker /\ ~r.panic

\* A file sink is returned exactly when parseFileOptions and newFileWriter
\* accept the DSN, and nothing is built otherwise.
FileCase(r, opts, badDirs) ==
    IF opts.ok /\ newFileWriter(opts, badDirs).ok
    THEN r.err = "nil" /\ r.kind = "file" /\ r.closer /\ ~r.worker
    ELSE NothingBuilt(r)

\* An HTTP sink with its worker is returned exactly when parseHTTPOptions
\* accepts the DSN and the queue can be made; with a negative buffer-size the
\* constructor panics; nothing is built when the parser rejects the DSN.
HTTPCase(r, opts) ==
    IF ~opts.ok THEN NothingBuilt(r)
    ELSE IF opts.BufferSize < 0 THEN r.panic
    ELSE r.err = "nil" /\ r.kind = "http" /\ r.closer /\ r.worker

C14_HTTPSDispatch ==
    (CoreReturned /\ SchemeOf(call.arg) = "https" /\ ~call.arg.bad
        /\ \A i \in DOMAIN call.arg.query :
               call.arg.query[i] \in { Q("timeout", <<"5", "s">>),
                                       Q("buffer-size", <<"5", "1", "2">>),
                                       Q("batch-size", <<"5", "0">>),
                                       Q("max-retries", <<"5">>),
                                       Q("level", <<"d", "e", "b", "u", "g">>),
                                       Q("foo", <<"b", "a", "r">>) }) =>
        /\ ret.val.err = "nil"
        /\ ret.val.kind = "http"
        /\ ret.val.closer

\* The severities of records.
Severities == { DebugLevel, InfoLevel, WarnLevel, ErrorLevel }

\* The minimum severity a DSN asks for: its level parameter, info without one.
AskedLevel(q) ==
    IF \E i \in DOMAIN q : q[i] = Q("level", <<"d", "e", "b", "u", "g">>) THEN DebugLevel
    ELSE IF \E i \in DOMAIN q : q[i] = Q("level", <<"W", "A", "R", "N">>) THEN WarnLevel
    ELSE InfoLevel

\* C15: the minimum severity of a constructed adaptor sink is the level
\* parameter of its DSN, info when the DSN has none, for every facade level; the
\* sink is offered a record exactly when the record's severity is at least
\* that minimum.
C15_PerAdaptorSeverity ==
    (CoreReturned /\ ret.val.err = "nil") =>
        /\ ret.val.level = AskedLevel(call.arg.query)
        /\ \A sev \in Severities :
               Enabled(ret.val.level, sev) <=> sev >= AskedLevel(call.arg.query)

AcceptedPairs ==
    { Q("max-size", <<"5", "0", "m">>), Q("max-size", <<"2", "g">>),
      Q("max-backups", <<"5">>), Q("max-age", <<"7", "d">>),
      Q("compress", <<"g", "z", "i", "p">>), Q("compress", <<"n", "o", "n", "e">>),
      Q("level", <<"d", "e", "b", "u", "g">>), Q("level", <<"W", "A", "R", "N">>),
      Q("timeout", <<"5", "s">>),
      Q("buffer-size", <<"5", "1", "2">>), Q("buffer-size", <<"-", "1">>),
      Q("buffer-size", <<"0">>), Q("batch-size", <<"5", "0">>),
      Q("max-retries", <<"5">>), Q("max-retries", <<"-", "1">>) }

Meaning(pair) ==
    CASE pair = Q("max-size", <<"5", "0", "m">>) -> 50
      [] pair = Q("max-size", <<"2", "g">>) -> 2048
      [] pair = Q("max-backups", <<"5">>) -> 5
      [] pair = Q("max-age", <<"7", "d">>) -> 7
      [] pair = Q("compress", <<"g", "z", "i", "p">>) -> "gzip"
      [] pair = Q("compress", <<"n", "o", "n", "e">>) -> "none"
      [] pair = Q("level", <<"d", "e", "b", "u", "g">>) -> DebugLevel
      [] pair = Q("level", <<"W", "A", "R", "N">>) -> WarnLevel
      [] pair = Q("timeout", <<"5", "s">>) -> 5000
      [] pair = Q("buffer-size", <<"5", "1", "2">>) -> 512
      [] pair = Q("buffer-size", <<"-", "1">>) -> 0 - 1
      [] pair = Q("buffer-size", <<"0">>) -> 0
      [] pair = Q("batch-size", <<"5", "0">>) -> 50
      [] pair = Q("max-retries", <<"5">>) -> 5
      [] pair = Q("max-retries", <<"-", "1">>) -> 0 - 1

FileKeys == { "max-size", "max-backups", "max-age", "compress", "level" }

HTTPKeys == { "timeout", "buffer-size", "batch-size", "max-retries", "level" }

\* Every one of the keys that the query holds has a value its parser accepts.
ValuesAccepted(q, keys) == \A i \in DOMAIN q : q[i].k \in keys => q[i] \in AcceptedPairs

\* The value of a key: what its pair means when the query holds the key, the
\* default otherwise.
ValueOr(q, key, default) ==
    IF \E i \in DOMAIN q : q[i].k = key
    THEN Meaning(q[CHOOSE i \in DOMAIN q : q[i].k = key])
    ELSE default

\* C18: parseFileOptions on a file DSN returns the URI path and, for max-size,
\* max-backups, max-age, compress and level, the parsed value of the key when
\* the query holds it and the default (100, 10, 30, none, info) otherwise; any
\* other key changes nothing and is no error.
C18_ParseFileOptions ==
    (ret.done /\ call.fn = "parseFileOptions" /\ SchemeOf(call.arg) = "file"
        /\ ~call.arg.bad /\ ValuesAccepted(call.arg.query, FileKeys)) =>
        ret.val = [ok |-> TRUE,
                   Path |-> call.arg.path,
                   MaxSize |-> ValueOr(call.arg.query, "max-size", 100),
                   MaxBackups |-> ValueOr(call.arg.query, "max-backups", 10),
                   MaxAge |-> ValueOr(call.arg.query, "max-age", 30),
                   Compress |-> ValueOr(call.arg.query, "compress", "none"),
                   Level |-> ValueOr(call.arg.query, "level", InfoLevel)]

\* A file DSN with an unknown key and max-age=7d was parsed.
C18_Witness ==
    /\ ret.done
    /\ call.fn = "parseFileOptions"
    /\ call.arg = FileDSN(AppLog, <<Q("foo", <<"b", "a", "r">>), Q("max-age", <<"7", "d">>)>>)
    /\ ret.val.ok
    /\ ret.val.MaxAge = 7
    /\ ret.val.MaxSize = 100

\* C19: parseHTTPOptions on an http or https DSN returns a URL made of the
\* scheme, the host and the path only, never with the query of the DSN, and
\* timeout, buffer-size, batch-size, max-retries and level as the parsed value
\* of the key when the query holds it and the default (10s, 1024, 100, 3, info)
\* otherwise.
C19_ParseHTTPOptions ==
    (ret.done /\ call.fn = "parseHTTPOptions"
        /\ SchemeOf(call.arg) \in {"http", "https"}
        /\ ~call.arg.bad /\ ValuesAccepted(call.arg.query, HTTPKeys)) =>
        ret.val = [ok |-> TRUE,
                   URL |-> [scheme |-> call.arg.scheme, host |-> call.arg.host,
                            path |-> call.arg.path, query |-> <<>>],
                   Timeout |-> ValueOr(call.arg.query, "timeout", 10 * 1000),
                   BufferSize |-> ValueOr(call.arg.query, "buffer-size", 1024),
                   BatchSize |-> ValueOr(call.arg.query, "batch-size", 100),
                   MaxRetries |-> ValueOr(call.arg.query, "max-retries", 3),
                   Level |-> ValueOr(call.arg.query, "level", InfoLevel)]

\* An https DSN with timeout=5s and buffer-size=512 was parsed.
C19_Witness ==
    /\ ret.done
    /\ call.fn = "parseHTTPOptions"
    /\ call.arg = HTTPDSN("https", <<Q("timeout", <<"5", "s">>),
                                      Q("buffer-size", <<"5", "1", "2">>)>>)
    /\ ret.val.ok
    /\ ret.val.URL.query = <<>>
    /\ ret.val.Timeout = 5000
    /\ ret.val.BatchSize = 100

\* C20: parseFileOptions returns an error and no options for every DSN whose
\* scheme is not file, and parseHTTPOptions for every DSN whose scheme is
\* neither http nor https, whatever the rest of the DSN holds.
C20_SchemeMismatch ==
    /\ (ret.done /\ call.fn = "parseFileOptions" /\ SchemeOf(call.arg) # "file") =>
           ret.val = [ok |-> FALSE]
    /\ (ret.done /\ call.fn = "parseHTTPOptions"
           /\ SchemeOf(call.arg) \notin {"http", "https"}) =>
           ret.val = [ok |-> FALSE]

\* The file parser refused an http DSN whose query holds only valid file
\* parameters.
C20_Witness ==
    /\ ret.done
    /\ call.fn = "parseFileOptions"
    /\ call.arg = HTTPDSN("http", <<Q("max-size", <<"5", "0", "m">>),
                                     Q("compress", <<"g", "z", "i", "p">>)>>)
    /\ ~ret.val.ok

\* A parser has returned for a DSN of its own scheme whose query holds one of
\* the parser's keys with a value the key's parser does not accept.
RejectedValueParsed ==
    /\ ret.done
    /\ \/ /\ call.fn = "parseFileOptions"
          /\ SchemeOf(call.arg) = "file"
          /\ ~call.arg.bad
          /\ ~ValuesAccepted(call.arg.query, FileKeys)
       \/ /\ call.fn = "parseHTTPOptions"
          /\ SchemeOf(call.arg) \in {"http", "https"}
          /\ ~call.arg.bad
          /\ ~ValuesAccepted(call.arg.query, HTTPKeys)

\* C21: when a recognised query key is present with a value its parser does not
\* accept, the empty value included, parseFileOptions and parseHTTPOptions
\* return an error and no options instead of the default of the key.
C21_NeverDefaulted == RejectedValueParsed => ret.val = [ok |-> FALSE]

\* The same for the values that are not empty.
C21_NonEmptyRejected ==
    (RejectedValueParsed /\ \A i \in DOMAIN call.arg.query : call.arg.query[i].v # <<>>) =>
        ret.val = [ok |-> FALSE]


\* ---- the Service and Logger.Close -------------------------------------------
\* C22: every constructed sink is destroyed exactly once: after Serve, whatever
\* Shutdown, Close and Logger.Close calls are made, in any number and order, the
\* Close of each registered sink has been invoked exactly once, never twice.
C22_ClosedExactlyOnce ==
    \A i \in DOMAIN sinks :
        /\ sinks[i].closes <= 1
        /\ closeLog # <<>> => sinks[i].closes = 1

\* What holds instead: the first call of Logger.Close closes each sink once.
C22_OnceByFirstCall ==
    Len(closeLog) = 1 => \A i \in DOMAIN sinks : sinks[i].closes = 1

\* A second call closes each sink it reaches a second time.
C22_SecondCallClosesAgain ==
    (Len(closeLog) = 2 /\ service.logger = "set") =>
        \A i \in DOMAIN sinks : i \in Range(closeLog[2].invoked) => sinks[i].closes = 2

\* The closers in registration order.
InOrder == [i \in 1 .. Len(sinks) |-> i]

\* One call of Logger.Close did what C28 says.
ClosedAll(e) ==
    /\ ~e.panic
    /\ e.invoked = InOrder
    /\ e.err = IF e.failed = <<>> THEN 0 ELSE e.failed[1]

\* C28: Logger.Close invokes Close on every registered closer, in registration
\* order, even when an earlier closer returned an error, and returns the error of
\* the first closer that failed, nil when none failed.
C28_CloseAllInOrder ==
    service.logger = "set" => \A k \in DOMAIN closeLog : ClosedAll(closeLog[k])

\* The same for the first call of Logger.Close on a Logger.
C28_FirstCallClosesAll ==
    (service.logger = "set" /\ closeLog # <<>>) => ClosedAll(closeLog[1])

\* A first call where a closer failed before the last one.
C28_FailedEarly ==
    /\ service.logger = "set"
    /\ Len(closeLog) = 1
    /\ Len(sinks) = 2
    /\ closeLog[1].failed = <<1, 2>>


\* ---- the HTTP sink at shutdown ----------------------------------------------
\* C23: after Close has signalled cancellation the worker starts at most one
\* further flush: the number of flushes started is at most one more than it was
\* when the cancellation was signalled.
C23_OneFlushAfterCancel == cancelled => Len(flushed) <= flushesAtCancel + 1

\* C24: a POST that left the client before Close signalled cancellation ends
\* with a response, a transport error or its own timeout, never with the
\* cancellation of w.ctx.
C24_NeverAborted ==
    [][(wpc = "inflight" /\ reached /\ Len(attempts') > Len(attempts)) =>
           Last(attempts') # "canceled"]_vars

\* C25: within one flush no POST follows a successful one; a POST succeeds
\* exactly when it ends with a status below 400; after the success sendBatch has
\* returned nil with one sleep for each failed attempt before it and none after
\* it, so the flush made (index of the success) + 1 POSTs.
C25_StopAtFirstSuccess ==
    /\ \A i \in DOMAIN attempts : attempts[i] = "ok" => i = Len(attempts)
    /\ (attempts # <<>> /\ Last(attempts) = "ok") =>
           /\ sendErr = "nil"
           /\ wpc \notin {"inflight", "sleep"}
           /\ Len(delays) = Len(attempts) - 1
           /\ Len(attempts) <= maxRetries + 1
    /\ (attempts # <<>> /\ Last(attempts) # "ok") => sendErr # "nil"

\* The second POST of a flush succeeded after a status of 400 or more.
C25_Witness ==
    /\ attempts = <<"status", "ok">>
    /\ delays = <<1>>
    /\ sendErr = "nil"
    /\ wpc = "select"

\* The records the worker has dequeued, those it holds outside a payload, and
\* those of all payloads so far.
Dequeued == (okBefore \cup okAfter) \ Range(Ids(buffer))

Held == Range(Ids(batch)) \cup (IF wpc = "recv" THEN {data.id} ELSE {})

InPayloads == Flatten(flushed)

\* C26: every dequeued record is in the batch or in a payload, no record is in
\* two payloads or twice in one, a worker that has ended has put every dequeued
\* record in a payload, and the batch of a waiting worker holds no record of an
\* earlier payload, whether that flush succeeded or failed.
C26_BatchConservation ==
    /\ \A i, j \in DOMAIN InPayloads : InPayloads[i] = InPayloads[j] => i = j
    /\ Dequeued = Range(InPayloads) \cup Held
    /\ wpc = "done" => Dequeued = Range(InPayloads)
    /\ wpc \in {"select", "recv"} => Range(Ids(batch)) \cap Range(InPayloads) = {}

\* A failed flush has returned to the loop with the batch emptied, and a later
\* record went into a payload of its own.
C26_Witness ==
    /\ flushed = <<<<1>>, <<2>>>>
    /\ received = {2}
    /\ wpc = "select"
    /\ batch = <<>>

\* C27: the queue of an HTTP sink never holds more than bufferCapacity records.
C27_QueueBounded == bufferSize >= 0 => Len(buffer) <= bufferSize

\* A Write found the queue at its capacity and was refused.
C27_Witness ==
    /\ bufferSize = MaxBuffer
    /\ Len(buffer) = bufferSize
    /\ lastWrite.err = "full"
    /\ lastWrite.qlen = bufferSize

\* Close has been called and has not returned.
InClose == closePc \in {"cancelled", "waiting"}

\* C29: a call of HTTPWriter.Close eventually returns, from any state of the
\* sink, when every POST ends and the worker is scheduled fairly.
C29_CloseTerminates == InClose ~> closePc = "done"

\* What holds instead: Close returns unless the process panics.
C29_ReturnsUnlessPanic == InClose ~> (closePc = "done" \/ panicked)

\* C30: a Write after Close has returned gives back a byte count and nil or the
\* buffer-full error, and the process has not panicked.
C30_WriteAfterClose ==
    lastWrite.phase = "done" => (lastWrite.err \in {"nil", "full"} /\ ~panicked)


\* ---- option values the parser accepts ---------------------------------------
\* createAdaptorCore has ended for an http DSN that parseHTTPOptions accepts.
AcceptedHTTPBuilt ==
    /\ CoreReturned
    /\ SchemeOf(call.arg) = "http"
    /\ parseHTTPOptions(call.arg).ok

\* C31: every option record that parseHTTPOptions accepts yields a working
\* sink: building the sink from an accepted http DSN, whatever integers its
\* buffer-size and batch-size are, does not panic and returns the sink with its
\* worker.
C31_AcceptedOptionsWork ==
    AcceptedHTTPBuilt =>
        /\ ~ret.val.panic
        /\ ret.val.err = "nil"
        /\ ret.val.worker

\* The same for the accepted records whose buffer-size is not negative.
C31_WorksUnlessNegative ==
    (AcceptedHTTPBuilt /\ parseHTTPOptions(call.arg).BufferSize >= 0) =>
        /\ ~ret.val.panic
        /\ ret.val.err = "nil"
        /\ ret.val.worker

\* The worker of a sink with a negative batch-size does not get past its start.
C31_WorkerNeedsBatchCapacity == (batchSize < 0 /\ bufferSize >= 0) => wpc = "start"

\* sendBatch has run on a non-empty batch and has returned.
FlushReturned == flushed # <<>> /\ sendErr # "none"

\* C32: every flush of a non-empty batch has made at least one POST attempt
\* when it returns and the batch is discarded, for every max-retries value.
C32_AtLeastOnePost == FlushReturned => attempts # <<>>

\* The same for the max-retries values that are not negative.
C32_PostUnlessNegative == (FlushReturned /\ maxRetries >= 0) => attempts # <<>>

====
